---- MODULE Spec2Model ----
(***************************************************************************)
(* Conversation service (conversation.py) and Message service (message.py) *)
(* of mountee32/realise: token-gated CRUD handlers over two tables of one  *)
(* relational store.                                                       *)
(*                                                                         *)
(* Values.  A nullable value is a sequence of length at most one: None is  *)
(* SQL NULL / Python None, Some(v) is the value v.  Scores are in tenths   *)
(* (5 is 0.5, the bound 1 is 10).  A JSON body is a function from the keys *)
(* the client sent to their values, so a key that was not sent and a key   *)
(* sent as null are different bodies.                                      *)
(*                                                                         *)
(* Time and identifiers.  Requests are handled one after the other; the    *)
(* k-th request is handled at instant k and the identifier uuid4() draws   *)
(* for it is k, so draws never repeat and two requests never share an      *)
(* instant.  Instant 0 is the import of message.py.                        *)
(*                                                                         *)
(* Store.  Every handler issues one statement, alone or inside             *)
(* database.transaction(), so a handler is one atomic step.  The tables    *)
(* enforce what the declarative classes state: NOT NULL, enum membership,  *)
(* the two CHECK ranges and the foreign keys (no ON DELETE rule, so a      *)
(* referenced conversation cannot be deleted).                             *)
(*                                                                         *)
(* Two things the sources leave to the installed libraries are fixed per   *)
(* behaviour by Init: the status HTTPBearer answers when the request has   *)
(* no credential, and whether an UPDATE whose values are empty is rejected *)
(* by the store.                                                           *)
(***************************************************************************)
EXTENDS Integers, Sequences, FiniteSets, TLC

\* Number of requests in a behaviour.
MaxRequests == 4

None == <<>>
Some(v) == <<v>>

VARIABLES
    conversation,         \* table "conversation": conversation_id -> row
    message,              \* table "message": message_id -> row
    requests,             \* number of requests handled so far
    last,                 \* the last request and its response
    bearerMissingStatus,  \* status HTTPBearer answers when no credential is sent
    emptySetFails         \* whether the store rejects an UPDATE with no SET column

vars == <<conversation, message, requests, last, bearerMissingStatus, emptySetFails>>

----------------------------------------------------------------------------
(* Process configuration and the access gate *)

API_TOKEN == "s3cret"
Absent == "absent"
Credentials == {API_TOKEN, "wrong", Absent}

\* verify_token with the raise left out.
verify_token_never_raises(credentials) == TRUE
\* TRUE when the dependency returns, FALSE when it raises 401.
\* (message.py 65-69 is the same function.)
verify_token(credentials) == ~(credentials # API_TOKEN)

\* 0 when the request reaches the handler, else the status of the rejection.
\* HTTPBearer() rejects a request with no credential before verify_token runs.
Gate(cred) ==
    IF cred = Absent THEN bearerMissingStatus
    ELSE IF verify_token(cred) THEN 0
    ELSE 401

----------------------------------------------------------------------------
(* Clock and identifiers *)

utcnow == requests + 1
uuid4 == requests + 1
\* MessageCreate's timestamp default is evaluated once, when the class is defined.
MessageCreateTimestampDefault == 0

\* An identifier the server never issued.
UnknownIds == {0}

----------------------------------------------------------------------------
(* Tables *)

Companies == {"co1"}
ConversationStatus == {"ongoing", "terminated"}
SenderTypeEnum == {"User", "Bot"}

ConversationCreateFields ==
    {"company_id", "bot_version", "start_time", "end_time", "status",
     "sentiment_score", "intent_label", "intent_confidence_score"}

MessageCreateFields ==
    {"conversation_id", "sender_type", "content", "timestamp",
     "sentiment_score", "intent_label", "intent_confidence_score"}

\* Column constraints of table conversation, on a row about to be written.
ConversationRowOK(row) ==
    /\ row.company_id = None \/ row.company_id[1] \in Companies
    /\ row.bot_version # None
    /\ row.status # None /\ row.status[1] \in ConversationStatus
    /\ row.sentiment_score # None

\* Table message without the foreign key on conversation_id.
MessageRowNoForeignKey(row) ==
    /\ row.conversation_id # None
    /\ row.sender_type = None \/ row.sender_type[1] \in SenderTypeEnum
    /\ row.sentiment_score = None
         \/ (row.sentiment_score[1] >= -10 /\ row.sentiment_score[1] <= 10)
    /\ row.intent_confidence_score = None
         \/ (row.intent_confidence_score[1] >= 0 /\ row.intent_confidence_score[1] <= 10)
\* Column constraints of table message, on a row about to be written.
MessageRowOK(row) ==
    /\ row.conversation_id # None /\ row.conversation_id[1] \in DOMAIN conversation
    /\ row.sender_type = None \/ row.sender_type[1] \in SenderTypeEnum
    /\ row.sentiment_score = None
         \/ (row.sentiment_score[1] >= -10 /\ row.sentiment_score[1] <= 10)
    /\ row.intent_confidence_score = None
         \/ (row.intent_confidence_score[1] >= 0 /\ row.intent_confidence_score[1] <= 10)

\* Messages whose foreign key names conversation cid.
Referencing(cid) == {m \in DOMAIN message : message[m].conversation_id = Some(cid)}

----------------------------------------------------------------------------
(* Request bodies *)

\* pydantic: a key the client did not send takes the field's default.
ConversationCreate(json) ==
    [f \in ConversationCreateFields |-> IF f \in DOMAIN json THEN json[f] ELSE None]

\* MessageCreate with the timestamp default taken when the body is parsed.
MessageCreateDefaultPerRequest(json) ==
    [f \in MessageCreateFields |->
        IF f \in DOMAIN json THEN json[f]
        ELSE IF f = "timestamp" THEN Some(utcnow)
        ELSE None]
\* MessageCreate: the timestamp default is the value computed at import.
MessageCreate(json) ==
    [f \in MessageCreateFields |->
        IF f \in DOMAIN json THEN json[f]
        ELSE IF f = "timestamp" THEN Some(MessageCreateTimestampDefault)
        ELSE None]

\* {key: value for key, value in d.items() if value is not None}
NotNoneItems(d) == [f \in {g \in DOMAIN d : d[g] # None} |-> d[f]]

\* UPDATE ... SET: the columns in values are overwritten, the others kept.
ApplySet(row, values) ==
    [f \in DOMAIN row |-> IF f \in DOMAIN values THEN values[f] ELSE row[f]]

EmptyJson == [f \in {} |-> None]

\* Bodies a client sends to the Conversation service.
ConversationBodies ==
    { EmptyJson,
      [bot_version |-> Some("v1"), status |-> Some("ongoing"),
       sentiment_score |-> Some(5), start_time |-> Some(0)],
      [company_id |-> Some("co1"), bot_version |-> Some("v2"),
       status |-> Some("ongoing"), sentiment_score |-> Some(5)],
      [status |-> Some("terminated"), end_time |-> Some(7),
       intent_label |-> Some("bye"), intent_confidence_score |-> Some(9)],
      [company_id |-> Some("co9")] }

\* Bodies a client sends to the Message service; conversation_id is mandatory.
MessageBodies ==
    UNION { { [conversation_id |-> Some(c)],
              [conversation_id |-> Some(c), timestamp |-> None],
              [conversation_id |-> Some(c), sender_type |-> Some("User"),
               content |-> Some("hi"), timestamp |-> Some(7),
               sentiment_score |-> Some(5), intent_label |-> Some("greet"),
               intent_confidence_score |-> Some(9)],
              [conversation_id |-> Some(c), sentiment_score |-> Some(20)] }
            : c \in DOMAIN conversation \cup UnknownIds }

----------------------------------------------------------------------------
(* Responses *)

\* response_model=ConversationResponse: company_id is a required UUID4.
ConversationResponseValid(row) == row.company_id # None

\* What database.execute returns for a statement that returns no row
\* (INSERT or DELETE without RETURNING): the first column of the first
\* returned row, hence None, whether or not a row matched.
ExecuteResult == None

Respond(op, cred, id, json, ran, status, result) ==
    /\ last' = [op |-> op, cred |-> cred, id |-> id, json |-> json,
                ran |-> ran, status |-> status, result |-> result,
                \* the request repeats the one before it
                repeated |-> /\ op = last.op /\ cred = last.cred
                             /\ id = last.id /\ json = last.json]
    /\ requests' = requests + 1
    /\ UNCHANGED <<bearerMissingStatus, emptySetFails>>

\* The gate raised: the handler body does not run.
Reject(op, cred, id, json) ==
    /\ Respond(op, cred, id, json, FALSE, Gate(cred), None)
    /\ UNCHANGED <<conversation, message>>

----------------------------------------------------------------------------
(* Conversation service *)

\* POST /conversation/
CreateConversationBody(cred, json) ==
    LET row == [ConversationCreate(json) EXCEPT !.start_time = Some(utcnow)]
        id == uuid4
    IN  IF ConversationRowOK(row)
        THEN /\ conversation' = (id :> row) @@ conversation
             /\ UNCHANGED message
             /\ Respond("create_conversation", cred, 0, json, TRUE, 200,
                        [conversation_id |-> id])
        ELSE /\ UNCHANGED <<conversation, message>>
             /\ Respond("create_conversation", cred, 0, json, TRUE, 500, None)

create_conversation ==
    /\ requests < MaxRequests
    /\ \E cred \in Credentials, json \in ConversationBodies :
          IF Gate(cred) # 0
          THEN Reject("create_conversation", cred, 0, json)
          ELSE CreateConversationBody(cred, json)

\* GET /conversation/
list_conversations ==
    /\ requests < MaxRequests
    /\ \E cred \in Credentials :
          IF Gate(cred) # 0
          THEN Reject("list_conversations", cred, 0, EmptyJson)
          ELSE /\ UNCHANGED <<conversation, message>>
               /\ IF \A c \in DOMAIN conversation :
                        ConversationResponseValid(conversation[c])
                  THEN Respond("list_conversations", cred, 0, EmptyJson, TRUE,
                               200, conversation)
                  ELSE Respond("list_conversations", cred, 0, EmptyJson, TRUE,
                               500, None)

\* GET /conversation/{conversation_id}
ReadConversationBody(cred, id) ==
    /\ UNCHANGED <<conversation, message>>
    /\ IF id \notin DOMAIN conversation
       THEN \* HTTPException(404) is raised inside try and caught by except Exception
            Respond("read_conversation", cred, id, EmptyJson, TRUE, 500, None)
       ELSE IF ConversationResponseValid(conversation[id])
       THEN Respond("read_conversation", cred, id, EmptyJson, TRUE, 200,
                    conversation[id])
       ELSE Respond("read_conversation", cred, id, EmptyJson, TRUE, 500, None)

read_conversation ==
    /\ requests < MaxRequests
    /\ \E cred \in Credentials, id \in DOMAIN conversation \cup UnknownIds :
          IF Gate(cred) # 0
          THEN Reject("read_conversation", cred, id, EmptyJson)
          ELSE ReadConversationBody(cred, id)

\* PUT /conversation/{conversation_id}
UpdateConversationBody(cred, id, json) ==
    LET update_values == NotNoneItems(ConversationCreate(json))
        matched == id \in DOMAIN conversation
        row == ApplySet(conversation[id], update_values)
        fail == Respond("update_conversation", cred, id, json, TRUE, 500, None)
    IN  /\ UNCHANGED message
        /\ IF DOMAIN update_values = {} /\ emptySetFails
           THEN \* the statement is rejected; the transaction rolls back
                UNCHANGED conversation /\ fail
           ELSE IF ~matched
           THEN \* HTTPException(404) raised in the transaction, caught by except
                UNCHANGED conversation /\ fail
           ELSE IF ~ConversationRowOK(row)
           THEN UNCHANGED conversation /\ fail
           ELSE /\ conversation' = [conversation EXCEPT ![id] = row]
                /\ IF ConversationResponseValid(row)
                   THEN Respond("update_conversation", cred, id, json, TRUE,
                                200, row)
                   ELSE \* committed; the response fails validation
                        fail

update_conversation ==
    /\ requests < MaxRequests
    /\ \E cred \in Credentials, id \in DOMAIN conversation \cup UnknownIds,
          json \in ConversationBodies :
          IF Gate(cred) # 0
          THEN Reject("update_conversation", cred, id, json)
          ELSE UpdateConversationBody(cred, id, json)

\* DELETE /conversation/{conversation_id}
DeleteConversationBody(cred, id) ==
    LET result == ExecuteResult
        fail == Respond("delete_conversation", cred, id, EmptyJson, TRUE, 500, None)
    IN  /\ UNCHANGED message
        /\ IF Referencing(id) # {}
           THEN \* foreign key of message.conversation_id: the DELETE fails
                UNCHANGED conversation /\ fail
           ELSE IF result = None
           THEN \* "if not result": HTTPException(404) raised inside the
                \* transaction (rollback) and caught by except Exception
                UNCHANGED conversation /\ fail
           ELSE /\ conversation' =
                     [c \in DOMAIN conversation \ {id} |-> conversation[c]]
                /\ Respond("delete_conversation", cred, id, EmptyJson, TRUE,
                           204, None)

delete_conversation ==
    /\ requests < MaxRequests
    /\ \E cred \in Credentials, id \in DOMAIN conversation \cup UnknownIds :
          IF Gate(cred) # 0
          THEN Reject("delete_conversation", cred, id, EmptyJson)
          ELSE DeleteConversationBody(cred, id)

----------------------------------------------------------------------------
(* Message service *)

\* POST /message/
CreateMessageBody(cred, json) ==
    LET new_message == MessageCreate(json)
        id == uuid4
        \* a deleted sentiment_score key leaves the column NULL
        row == new_message
    IN  /\ UNCHANGED conversation
        /\ IF MessageRowOK(row)
           THEN /\ message' = (id :> row) @@ message
                /\ Respond("create_message", cred, 0, json, TRUE, 200,
                           [message_id |-> id, row |-> row])
           ELSE /\ UNCHANGED message
                /\ Respond("create_message", cred, 0, json, TRUE, 500, None)

create_message ==
    /\ requests < MaxRequests
    /\ \E cred \in Credentials, json \in MessageBodies :
          IF Gate(cred) # 0
          THEN Reject("create_message", cred, 0, json)
          ELSE CreateMessageBody(cred, json)

\* GET /message/conversation/{conversation_id}
\* The select without its where clause.
SelectMessagesNoWhere(conversation_id) == message
\* Message.__table__.select().where(Message.conversation_id == conversation_id)
SelectMessages(conversation_id) ==
    [m \in Referencing(conversation_id) |-> message[m]]

GetMessagesBody(cred, conversation_id) ==
    LET messages == SelectMessages(conversation_id)
    IN  /\ UNCHANGED <<conversation, message>>
        /\ IF DOMAIN messages = {}
           THEN Respond("get_messages_for_conversation", cred, conversation_id,
                        EmptyJson, TRUE, 404, None)
           ELSE Respond("get_messages_for_conversation", cred, conversation_id,
                        EmptyJson, TRUE, 200, messages)

get_messages_for_conversation ==
    /\ requests < MaxRequests
    /\ \E cred \in Credentials, id \in DOMAIN conversation \cup UnknownIds :
          IF Gate(cred) # 0
          THEN Reject("get_messages_for_conversation", cred, id, EmptyJson)
          ELSE GetMessagesBody(cred, id)

\* GET /message/hello/
hello_world ==
    /\ requests < MaxRequests
    /\ \E cred \in Credentials :
          IF Gate(cred) # 0
          THEN Reject("hello_world", cred, 0, EmptyJson)
          ELSE /\ UNCHANGED <<conversation, message>>
               /\ Respond("hello_world", cred, 0, EmptyJson, TRUE, 200,
                          Some("Hello, World!"))

\* PUT /message/{message_id}
UpdateMessageBody(cred, id, json) ==
    LET update_values == NotNoneItems(MessageCreate(json))
        matched == id \in DOMAIN message
        row == ApplySet(message[id], update_values)
    IN  /\ UNCHANGED conversation
        /\ IF ~matched
           THEN /\ UNCHANGED message
                /\ Respond("update_message", cred, id, json, TRUE, 404, None)
           ELSE IF ~MessageRowOK(row)
           THEN /\ UNCHANGED message
                /\ Respond("update_message", cred, id, json, TRUE, 500, None)
           ELSE /\ message' = [message EXCEPT ![id] = row]
                /\ Respond("update_message", cred, id, json, TRUE, 200,
                           [message_id |-> id, row |-> row])

update_message ==
    /\ requests < MaxRequests
    /\ \E cred \in Credentials, id \in DOMAIN message \cup UnknownIds,
          json \in MessageBodies :
          IF Gate(cred) # 0
          THEN Reject("update_message", cred, id, json)
          ELSE UpdateMessageBody(cred, id, json)

----------------------------------------------------------------------------
(* Specification *)

Init ==
    /\ conversation = EmptyJson
    /\ message = EmptyJson
    /\ requests = 0
    /\ last = [op |-> "startup", cred |-> Absent, id |-> 0, json |-> EmptyJson,
               ran |-> FALSE, status |-> 0, result |-> None,
               repeated |-> FALSE]
    /\ bearerMissingStatus \in {401, 403}
    /\ emptySetFails \in BOOLEAN

Next ==
    \/ create_conversation
    \/ list_conversations
    \/ read_conversation
    \/ update_conversation
    \/ delete_conversation
    \/ create_message
    \/ get_messages_for_conversation
    \/ hello_world
    \/ update_message

Spec == Init /\ [][Next]_vars

----------------------------------------------------------------------------
(* Properties *)

Greeting == Some("Hello, World!")
ConversationWrites ==
    {"create_conversation", "update_conversation", "delete_conversation"}

C2_UnknownIdIs404 ==
    (/\ last.ran
     /\ \/ /\ last.op \in {"read_conversation", "update_conversation",
                            "delete_conversation"}
           /\ last.id \notin DOMAIN conversation
           /\ last.status # 204
        \/ /\ last.op = "update_message"
           /\ last.id \notin DOMAIN message)
    => last.status = 404

\* C3: an authorized Delete of a stored conversation that no message references
\* is answered 204 and removes that row and no other.
C3_DeleteRemovesRow ==
    [][ (/\ last'.op = "delete_conversation" /\ last'.ran
         /\ last'.id \in DOMAIN conversation
         /\ \A m \in DOMAIN message :
               message[m].conversation_id # Some(last'.id))
        => /\ last'.status = 204
           /\ DOMAIN conversation' = DOMAIN conversation \ {last'.id}
           /\ \A c \in DOMAIN conversation' : conversation'[c] = conversation[c]
      ]_vars

\* The stored record id of table new is the record of table old with exactly the
\* non-null fields of json overwritten; every other record is as it was.
PartialOverwrite(old, new, id, json) ==
    /\ DOMAIN new = DOMAIN old
    /\ \A k \in DOMAIN old \ {id} : new[k] = old[k]
    /\ \A f \in DOMAIN old[id] :
          new[id][f] = IF f \in DOMAIN json /\ json[f] # None
                       THEN json[f]
                       ELSE old[id][f]

\* C4: after every successful Update, each field that is non-null in the client's
\* payload has the payload's value and every other field (Message timestamp
\* included) keeps its value; other records are unchanged.
C4_UpdateOverwritesOnlySupplied ==
    [][ (last'.ran /\ last'.status = 200) =>
          /\ last'.op = "update_conversation" =>
                /\ PartialOverwrite(conversation, conversation', last'.id, last'.json)
                /\ message' = message
          /\ last'.op = "update_message" =>
                /\ PartialOverwrite(message, message', last'.id, last'.json)
                /\ conversation' = conversation ]_vars

\* C5: an authorized Update of a stored record with an empty payload (for a
\* Message, its own conversation_id and nothing else) is answered 200 with the
\* record and changes no field.
C5_EmptyUpdateIsNoOp ==
    [][ /\ (/\ last'.op = "update_conversation" /\ last'.ran
             /\ last'.id \in DOMAIN conversation
             /\ last'.json = EmptyJson)
            => /\ last'.status = 200
               /\ last'.result = conversation[last'.id]
               /\ conversation' = conversation /\ message' = message
        /\ (/\ last'.op = "update_message" /\ last'.ran
             /\ last'.id \in DOMAIN message
             /\ DOMAIN last'.json = {"conversation_id"}
             /\ last'.json.conversation_id = message[last'.id].conversation_id)
            => /\ last'.status = 200
               /\ last'.result = [message_id |-> last'.id, row |-> message[last'.id]]
               /\ conversation' = conversation /\ message' = message ]_vars

\* C6: an authorized Update of a stored record that repeats the request before
\* it (same identifier, same payload) leaves both tables as the first left them
\* and is answered as the first was.
C6_UpdateIdempotent ==
    [][ (/\ last'.repeated /\ last'.ran
         /\ \/ last'.op = "update_conversation" /\ last'.id \in DOMAIN conversation
            \/ last'.op = "update_message" /\ last'.id \in DOMAIN message)
        => /\ conversation' = conversation /\ message' = message
           /\ last'.status = last.status
           /\ last'.result = last.result ]_vars

C6_Witness ==
    /\ last.op = "update_message" /\ last.repeated /\ last.status = 200
    /\ "timestamp" \notin DOMAIN last.json
    /\ message[last.id].timestamp = Some(MessageCreateTimestampDefault)

\* C7: an authorized List-by-conversation(c) returns exactly the stored messages
\* whose conversation_id is c when there is one, and 404 when there is none,
\* whether or not conversation c is stored.
C7_ListByConversation ==
    (last.op = "get_messages_for_conversation" /\ last.ran) =>
        LET matching == {m \in DOMAIN message :
                            message[m].conversation_id[1] = last.id}
        IN  IF matching = {}
            THEN last.status = 404 /\ last.result = None
            ELSE /\ last.status = 200
                 /\ DOMAIN last.result = matching
                 /\ \A m \in matching : last.result[m] = message[m]

C7_Witness ==
    /\ last.op = "get_messages_for_conversation" /\ last.status = 200
    /\ Cardinality(DOMAIN last.result) = 2

\* Every stored message names a stored conversation.
ReferentialIntegrity ==
    \A m \in DOMAIN message :
        message[m].conversation_id[1] \in DOMAIN conversation

C9_TimestampIsCreationTime ==
    (/\ last.op = "create_message" /\ last.ran /\ last.status = 200
     /\ "timestamp" \notin DOMAIN last.json)
    => /\ message[last.result.message_id].timestamp = Some(requests)
       /\ last.result.row.timestamp = Some(requests)

\* C10: a Conversation Create, Update or Delete that is answered with an error
\* leaves both tables as they were, and one that changes a table is not
\* answered with an error.
C10_ErrorMeansRolledBack ==
    [][ (last'.op \in ConversationWrites /\ last'.ran) =>
          /\ last'.status \notin {200, 204} =>
                conversation' = conversation /\ message' = message
          /\ (conversation' # conversation \/ message' # message) =>
                last'.status \in {200, 204} ]_vars

====
